---- MODULE Spec2Model ----
(***************************************************************************)
(* FgcmBuildStarsTask of lsst-dm/fgcm: the three-stage pipeline            *)
(* (visit catalog, star observations, star matching) run against a butler  *)
(* Data Store, in its two variants:                                        *)
(*   "fgcmcal" : src/python/lsst/fgcmcal/fgcmBuildStars.py                 *)
(*   "fgcm"    : src/python/lsst/fgcm/fgcmBuildStars.py                    *)
(* The butler repository (src catalogs, exposures), the source selector    *)
(* and the fgcm star matcher are collaborators: the repository is fixed by *)
(* Init, the selector's verdict is an attribute of each detection, and the *)
(* matcher answers with one of a small set of CSR indexes, or raises.      *)
(***************************************************************************)
EXTENDS Integers, Sequences, FiniteSets, TLC

(* ------------------------------ bounds -------------------------------- *)

\* longest id list (dataRefs) handed to run()
MaxRefs == 2
\* longest answer of butler.queryMetadata
MaxQuery == 2
\* runs with config.remake set, among any number of runs without it
MaxRemakes == 1

(* --------------------------- the environment --------------------------- *)

Variants == {"fgcmcal", "fgcm"}

\* visit ids known to the registry
Visits == {100, 101}

\* butler.get('camera'): the detector ids in the order "for detector in
\* camera" yields them
VARIABLE camera

\* the cameras a repository can come with: ids counted from 0, and from 1
Cameras == {<<0, 1>>, <<1, 2>>}
nCcd == Len(camera)
CcdIds == {camera[k] : k \in 1..Len(camera)}

\* config.referenceCCD, a detector of either camera
referenceCCD == 1

\* the filter of each visit, as exp.getInfo().getFilter().getName() gives it
FilterOf(v) == IF v = 100 THEN "g" ELSE "r"

(* A detection of a src catalog.  fluxErr is read only when errKind is     *)
(* "fin"; sel is the verdict of the source selector (fgcmcal), flagsOK the *)
(* conjunction of the flag columns the fgcm variant tests itself.          *)
Det(flux, errKind, fluxErr, jac, sel, flagsOK) ==
    [flux |-> flux, errKind |-> errKind, fluxErr |-> fluxErr, jac |-> jac,
     sel |-> sel, flagsOK |-> flagsOK]

Good     == Det(1000, "fin", 50, 1, TRUE, TRUE)
Unsel    == Det(1000, "fin", 50, 1, FALSE, FALSE)
ZeroFlux == Det(0, "fin", 50, 1, TRUE, TRUE)
NegFlux  == Det(-500, "fin", 50, 1, TRUE, TRUE)
InfErr   == Det(1000, "inf", 0, 1, TRUE, TRUE)
NanErr   == Det(1000, "nan", 0, 1, TRUE, TRUE)
ZeroJac  == Det(1000, "fin", 50, 0, TRUE, TRUE)
Faint    == Det(1000, "fin", 500, 1, TRUE, TRUE)

\* a src dataset of one (visit, ccd): absent, or a detection catalog
NoSrc == [exists |-> FALSE, dets |-> <<>>]
Src(dets) == [exists |-> TRUE, dets |-> dets]

(* What the repository holds for one visit: the src catalog of each        *)
(* detector and the exposure that carries its metadata ("raw", "calexp"    *)
(* or "none").                                                             *)
Profile(s0, s1, expo) == [src |-> <<s0, s1>>, expo |-> expo]

ProfilesOf(v) ==
    IF v = 100
    THEN { Profile(NoSrc, Src(<<Good, Good, Good>>), "raw"),
           Profile(Src(<<Good, ZeroFlux>>), NoSrc, "raw"),
           Profile(Src(<<Unsel, Faint>>), Src(<<NanErr, ZeroJac>>), "raw") }
    ELSE { Profile(NoSrc, Src(<<Good, Good>>), "raw"),
           Profile(Src(<<NegFlux>>), Src(<<InfErr>>), "calexp"),
           Profile(NoSrc, Src(<<Good>>), "none"),
           Profile(NoSrc, NoSrc, "raw") }

Repos == {r \in [Visits -> UNION {ProfilesOf(v) : v \in Visits}] :
            \A v \in Visits : r[v] \in ProfilesOf(v)}

(* The schema shared by the src catalogs of a repository (src_schema): the  *)
(* fields the observation stage looks up by name; and whether the          *)
(* exposures carry a VisitInfo at all.                                     *)
SrcFields == {"centroid", "jacobian"}
Schemas ==
    { [fields |-> SrcFields, visitInfo |-> TRUE],
      [fields |-> {"centroid"}, visitInfo |-> TRUE],
      [fields |-> {"jacobian"}, visitInfo |-> TRUE],
      [fields |-> SrcFields, visitInfo |-> FALSE] }

(* --------------------------- the program state ------------------------- *)

VARIABLES
    variant,      \* which of the two source files runs
    repo,         \* the butler repository: Visits -> profile
    schema,       \* the fields of its src catalogs and of its exposures
    call,         \* what the runner's __call__ did after task.run
    store,        \* the four output datasets of the Data Store
    paired,       \* fgcmStarIds and fgcmStarIndices come from one execution
    pc,           \* position of the orchestrator (run) and of its stage
    remake,       \* config.remake of the current run
    remakes,      \* how many runs had config.remake set
    applyJacobian,\* config.applyJacobian
    visitCat,     \* run()'s local visitCat
    disc,         \* _fgcmMakeVisitCatalog: how it discovered its visits
    loop,         \* _fgcmMakeAllStarObservations: its locals
    match,        \* _fgcmMatchStars: its locals and the matcher's calls
    run           \* what the current run has decided and done so far

vars == <<variant, repo, camera, schema, call, store, paired, pc, remake, remakes, applyJacobian,
          visitCat, disc, loop, match, run>>

(* ----------------------- butler: the Data Store ------------------------ *)

Datasets == {"fgcmVisitCatalog", "fgcmStarObservations", "fgcmStarIds",
             "fgcmStarIndices"}

Stages == {"visit", "obs", "match"}

\* the datasets each stage puts
Outputs(s) ==
    CASE s = "visit" -> {"fgcmVisitCatalog"}
      [] s = "obs"   -> {"fgcmStarObservations"}
      [] s = "match" -> {"fgcmStarIds", "fgcmStarIndices"}

Absent == [exists |-> FALSE, cat |-> <<>>]
EmptyStore == [d \in Datasets |-> Absent]

\* butler.datasetExists(name)
datasetExists(s, name) == s[name].exists

\* butler.put(cat, name)
put(s, cat, name) == [s EXCEPT ![name] = [exists |-> TRUE, cat |-> cat]]

\* butler.datasetExists('src', dataId={visit: v, ccd: c})
CcdPos(c) == CHOOSE k \in 1..nCcd : camera[k] = c
SrcExists(r, v, c) == c \in CcdIds /\ r[v].src[CcdPos(c)].exists

(* --------------------- run(): the stage decisions ---------------------- *)

\* mutants of StageNeeded: the test dropped, and the two conditions and-ed
StageNeededAlways(rm, present) == TRUE
StageNeededBoth(rm, present) == rm /\ ~present

\* "if self.config.remake or not butler.datasetExists(...)"; the fgcm
\* variant has no remake option, its runs carry remake = FALSE
StageNeeded(rm, present) == rm \/ ~present

\* mutant of StarsPresent: one of the two catalogs is enough
StarsPresentEither(s) ==
    datasetExists(s, "fgcmStarIds") \/ datasetExists(s, "fgcmStarIndices")

\* "not butler.datasetExists('fgcmStarIds') or
\*  not butler.datasetExists('fgcmStarIndices')", negated
StarsPresent(s) ==
    datasetExists(s, "fgcmStarIds") /\ datasetExists(s, "fgcmStarIndices")

(* ---------------------- _fgcmMakeVisitCatalog -------------------------- *)

Range(s) == {s[k] : k \in 1..Len(s)}
MinOf(S) == CHOOSE x \in S : \A y \in S : x <= y
Const(n, c) == [k \in 1..n |-> c]

\* the id list: data references (visit, ccd) in the order given
DataRef(v, c) == [visit |-> v, ccd |-> c]
RECURSIVE SeqsUpTo(_, _)
SeqsUpTo(S, n) ==
    IF n = 0 THEN {<<>>}
    ELSE LET shorter == SeqsUpTo(S, n - 1)
         IN shorter \cup {Append(q, x) : q \in {t \in shorter : Len(t) = n - 1}, x \in S}
RefLists == SeqsUpTo({DataRef(v, c) : v \in Visits, c \in CcdIds}, MaxRefs)
\* the answer of butler.queryMetadata: visits in any order and multiplicity
QueryAnswers == SeqsUpTo(Visits, MaxQuery)

\* what one call of _fgcmMakeVisitCatalog is given: a non-empty id list, or
\* an empty one with the query's answer and config.checkAllCcds (fgcmcal)
DiscoveryInputs(var) ==
    {[refs |-> refs, q |-> <<>>, chk |-> FALSE] : refs \in RefLists \ {<<>>}}
    \cup {[refs |-> <<>>, q |-> q, chk |-> chk] :
             q \in QueryAnswers,
             chk \in (IF var = "fgcmcal" THEN BOOLEAN ELSE {FALSE})}

\* the branch of "if len(dataRefs) == 0 / if not self.config.checkAllCcds"
\* one call takes, and the visits its dataRefs or its allVisits name
DiscOf(inp) ==
    IF Len(inp.refs) > 0
    THEN [mode |-> "ids", named |-> {inp.refs[k].visit : k \in 1..Len(inp.refs)}]
    ELSE [mode |-> IF inp.chk THEN "all" ELSE "fast", named |-> Range(inp.q)]
NoDisc == [mode |-> "none", named |-> {}]

\* "[d.dataId[visit] for d in dataRefs if d.dataId[ccd] == referenceCCD]"
RefVisits(refs) ==
    LET kept == SelectSeq(refs, LAMBDA d : d.ccd = referenceCCD)
    IN [k \in 1..Len(kept) |-> kept[k].visit]

\* the reference-detector scan of the query's answer
FastScan(r, q) == SelectSeq(q, LAMBDA v : SrcExists(r, v, referenceCCD))

\* the all-detector scan: a visit already found is skipped, the first
\* ccd of xrange(nCcd) with a src dataset is recorded beside the visit
RECURSIVE AllCcdScan(_, _, _, _)
AllCcdScan(r, q, k, acc) ==
    IF k > Len(q) THEN acc
    ELSE LET v == q[k]
             found == {c \in 0..(nCcd - 1) : SrcExists(r, v, c)}
         IN IF v \in Range(acc.visits) \/ found = {}
            THEN AllCcdScan(r, q, k + 1, acc)
            ELSE AllCcdScan(r, q, k + 1,
                            [visits |-> Append(acc.visits, v),
                             ccds |-> Append(acc.ccds, MinOf(found))])

\* srcVisits.sort()
SortVisits(s) == SortSeq(s, LAMBDA a, b : a < b)

\* srcVisits and srcCcds as the loop over visits reads them
Discover(var, r, refs, q, chk) ==
    IF var = "fgcmcal"
    THEN LET d == IF Len(refs) = 0
                  THEN IF ~chk
                       THEN [visits |-> FastScan(r, q),
                             ccds |-> Const(Len(FastScan(r, q)), referenceCCD)]
                       ELSE AllCcdScan(r, q, 1, [visits |-> <<>>, ccds |-> <<>>])
                  ELSE [visits |-> RefVisits(refs),
                        ccds |-> Const(Len(RefVisits(refs)), referenceCCD)]
         IN [visits |-> SortVisits(d.visits), ccds |-> d.ccds]
    ELSE LET sv == IF Len(refs) = 0 THEN FastScan(r, q) ELSE RefVisits(refs)
         IN [visits |-> sv, ccds |-> Const(Len(sv), referenceCCD)]

\* the exposure the metadata of visit v is read from: fgcmcal tries raw and
\* falls back to calexp, fgcm reads raw only; "none" is butler's NoResults
ExposureOf(var, r, v) ==
    IF r[v].expo = "raw" THEN "raw"
    ELSE IF var = "fgcmcal" /\ r[v].expo = "calexp" THEN "calexp"
    ELSE "none"

MetadataMissing(var, r, d) ==
    \E k \in 1..Len(d.visits) : ExposureOf(var, r, d.visits[k]) = "none"

\* how the loop over srcVisits ends: at the first visit it raises NoResults
\* when no exposure is found, AttributeError when the exposure has no
\* VisitInfo to read the pointing, date, exposure time and weather from
VisitLoopError(var, r, d, sch) ==
    IF Len(d.visits) = 0 THEN "none"
    ELSE IF ~sch.visitInfo
         THEN IF ExposureOf(var, r, d.visits[1]) = "none"
              THEN "NoResults" ELSE "AttributeError"
    ELSE IF MetadataMissing(var, r, d) THEN "NoResults" ELSE "none"

\* the rows of visitCat; ccd and expo record where the metadata came from
VisitRows(var, r, d) ==
    [k \in 1..Len(d.visits) |->
        [visit |-> d.visits[k], filtername |-> FilterOf(d.visits[k]),
         ccd |-> d.ccds[k], expo |-> ExposureOf(var, r, d.visits[k])]]

(* ------------------- _fgcmMakeAllStarObservations ---------------------- *)

\* a float as numpy holds it: finite (v, in units of 1e-6 mag), inf, -inf, nan
Fin(v) == [k |-> "fin", v |-> v]
NotFin(k) == [k |-> k, v |-> 0]
isfinite(x) == x.k = "fin"

\* (2.5 / np.log(10.)) * (fluxErr / flux), in units of 1e-6 mag
MagErrOf(d) ==
    IF d.errKind = "nan" THEN NotFin("nan")
    ELSE IF d.errKind = "inf"
         THEN IF d.flux > 0 THEN NotFin("inf")
              ELSE IF d.flux < 0 THEN NotFin("-inf") ELSE NotFin("inf")
    ELSE IF d.flux = 0
         THEN IF d.fluxErr > 0 THEN NotFin("inf")
              ELSE IF d.fluxErr < 0 THEN NotFin("-inf") ELSE NotFin("nan")
    ELSE IF d.flux > 0 THEN Fin((1085736 * d.fluxErr) \div d.flux)
    ELSE Fin(0 - ((1085736 * d.fluxErr) \div (0 - d.flux)))

\* np.nan_to_num: nan becomes 0, the infinities the largest finite floats
nan_to_num(x) ==
    IF x.k = "nan" THEN Fin(0)
    ELSE IF x.k = "inf" THEN Fin(2000000000)
    ELSE IF x.k = "-inf" THEN Fin(-2000000000)
    ELSE x

\* zeropointDefault - 2.5 log10(flux) + 2.5 log10(expTime), and with the
\* Jacobian correction - 2.5 log10(jacobian): which kind of float it is
MagOf(d, jacOn) ==
    LET m == IF d.flux > 0 THEN "fin" ELSE IF d.flux = 0 THEN "inf" ELSE "nan"
    IN IF ~jacOn \/ m = "nan" THEN m
       ELSE IF d.jac > 0 THEN m
       ELSE IF d.jac = 0 THEN "inf"
       ELSE "nan"

\* mutant of Kept: gdFlag without "magErr > 0.001"
KeptNoLowerCut(var, d) ==
    IF var = "fgcmcal" THEN d.sel
    ELSE LET magErr == nan_to_num(MagErrOf(d))
         IN d.flagsOK /\ isfinite(magErr) /\ magErr.v < 100000

\* the detections of one src catalog that are copied to the output:
\* fgcmcal takes the source selector's sourceCat, fgcm its own gdFlag
Kept(var, d) ==
    IF var = "fgcmcal" THEN d.sel
    ELSE LET magErr == nan_to_num(MagErrOf(d))
         IN d.flagsOK /\ isfinite(magErr) /\ magErr.v > 1000 /\ magErr.v < 100000

\* magerr as stored: fgcm stores the nan_to_num'ed array
StoredMagErr(var, d) ==
    IF var = "fgcmcal" THEN MagErrOf(d) ELSE nan_to_num(MagErrOf(d))

\* tempCat of the pair (visit vc[i], detector camera[j]); vpos, dpos and det
\* record the pair and the detection a row was made from
TempCat(var, dets, vrow, i, j, jacOn) ==
    LET good == SelectSeq(dets, LAMBDA d : Kept(var, d))
    IN [k \in 1..Len(good) |->
          [visit |-> vrow.visit, ccd |-> camera[j],
           mag |-> MagOf(good[k], jacOn), magerr |-> StoredMagErr(var, good[k]),
           vpos |-> i, dpos |-> j, det |-> good[k]]]

\* mutant of Extend: the new rows are put in front
ExtendInFront(full, temp) == temp \o full

\* fullCatalog.extend(tempCat)
Extend(full, temp) == full \o temp

\* mutant of ScanDone: the loop over visits ends one visit early
ScanDoneEarly(l, vc) == l.i >= Len(vc)

\* both loops have run to their end
ScanDone(l, vc) == l.i > Len(vc)

\* mutant of RequiredFields: the Jacobian is never looked up by fgcmcal
RequiredFieldsNoJacobian(var, jacOn) ==
    IF var = "fgcmcal" THEN {"centroid"} ELSE {"centroid", "jacobian"}

\* the fields looked up by name in the schema of the first src catalog read
\* ("if not started"): the centroid, and the Jacobian, which fgcmcal looks
\* up under config.applyJacobian only
RequiredFields(var, jacOn) ==
    IF var = "fgcmcal"
    THEN {"centroid"} \cup (IF jacOn THEN {"jacobian"} ELSE {})
    ELSE {"centroid", "jacobian"}

\* the lookups of the first src catalog find no such field
LookupFails(var, jacOn, sch, started) ==
    ~started /\ ~(RequiredFields(var, jacOn) \subseteq sch.fields)

NoLoop == [i |-> 0, j |-> 0, fullCatalog |-> <<>>, started |-> FALSE]

\* the pair the loops turn to after (visitCat[l.i], camera[l.j])
NextPair(l) ==
    [l EXCEPT !.i = IF l.j = nCcd THEN @ + 1 ELSE @,
              !.j = IF l.j = nCcd THEN 1 ELSE @ + 1]

\* mutant of SkipPair: the except clause leaves the loop over detectors
SkipPairBreak(l) == [l EXCEPT !.i = @ + 1, !.j = 1]

\* "except butlerExceptions.NoResults: continue"
SkipPair(l) == NextPair(l)

(* --------------------------- _fgcmMatchStars --------------------------- *)

\* np.searchsorted(a, key), side "left": a bisection, 0-based result
RECURSIVE Bisect(_, _, _, _)
Bisect(a, key, lo, hi) ==
    IF lo >= hi THEN lo
    ELSE LET mid == lo + ((hi - lo) \div 2)
         IN IF a[mid + 1] < key THEN Bisect(a, key, mid + 1, hi)
            ELSE Bisect(a, key, lo, mid)
searchsorted(a, key) == Bisect(a, key, 0, Len(a))

\* visitIndex = np.searchsorted(visitCat['visit'], obsCat['visit'])
VisitIndex(vc, oc) ==
    LET a == [k \in 1..Len(vc) |-> vc[k].visit]
    IN [k \in 1..Len(oc) |-> searchsorted(a, oc[k].visit)]

\* visitFilterNames[visitIndex] raises IndexError on an index len(visitCat)
IndexInRange(vc, oc) ==
    \A k \in 1..Len(oc) : VisitIndex(vc, oc)[k] < Len(vc)

\* obsFilterNames = visitFilterNames[visitIndex]
ObsFilterNames(vc, oc) ==
    [k \in 1..Len(oc) |-> vc[VisitIndex(vc, oc)[k] + 1].filtername]

\* rows lo..hi of the observation table as 0-based OBSINDEX entries
Rows(lo, hi) == [k \in 1..(hi - lo + 1) |-> lo + k - 1]
Star(id, start, nobs) ==
    [FGCM_ID |-> id, RA |-> 10 * id, DEC |-> 0 - id,
     OBSARRINDEX |-> start, NOBS |-> nobs]

(* What fgcm.FgcmMakeStars leaves in objIndexCat and obsIndexCat for n      *)
(* observations: two stars whose blocks are stored second-star first       *)
(* ("two"), one star that leaves row 0 unmatched ("drop"), an index whose  *)
(* count overruns the array ("bad"); no star when there is no observation. *)
MatchShapes == {"two", "drop", "bad"}
MatcherOutput(shape, n) ==
    LET h == (n + 1) \div 2
    IN CASE shape = "two" /\ n >= 1 ->
              [obj |-> <<Star(1, n - h, h), Star(2, 0, n - h)>>,
               idx |-> Rows(h, n - 1) \o Rows(0, h - 1)]
         [] shape = "drop" /\ n >= 1 ->
              [obj |-> <<Star(1, 0, n - 1)>>, idx |-> Rows(1, n - 1)]
         [] shape = "bad" /\ n >= 1 ->
              [obj |-> <<Star(1, 0, n + 1)>>, idx |-> Rows(0, n - 1)]
         [] OTHER -> [obj |-> <<>>, idx |-> <<>>]
MatcherOutputs(n) == {MatcherOutput(shape, n) : shape \in MatchShapes}

\* mutant of StarIdCat: OBSARRINDEX and NOBS land in each other's column
StarIdCatSwapped(obj) ==
    [k \in 1..Len(obj) |->
        [fgcm_id |-> obj[k].FGCM_ID, ra |-> obj[k].RA, dec |-> obj[k].DEC,
         obsarrindex |-> obj[k].NOBS, nobs |-> obj[k].OBSARRINDEX]]

\* fgcmStarIdCat: one row per objIndexCat row, columns copied
StarIdCat(obj) ==
    [k \in 1..Len(obj) |->
        [fgcm_id |-> obj[k].FGCM_ID, ra |-> obj[k].RA, dec |-> obj[k].DEC,
         obsarrindex |-> obj[k].OBSARRINDEX, nobs |-> obj[k].NOBS]]

\* mutant of StarIndicesCat: the index array is sorted on the way
StarIndicesCatSorted(idx) ==
    LET sorted == SortSeq(idx, LAMBDA a, b : a < b)
    IN [k \in 1..Len(idx) |-> [obsindex |-> sorted[k]]]

\* fgcmStarIndicesCat: one row per obsIndexCat row
StarIndicesCat(idx) == [k \in 1..Len(idx) |-> [obsindex |-> idx[k]]]

NoMatch == [names |-> <<>>, calls |-> <<>>, obj |-> <<>>, idx |-> <<>>]

\* mutant of MatcherCalls: the two calls in the other order
MatcherCallsSwapped(names) ==
    << [fn |-> "makeMatchedStars", names |-> names, kw |-> {}],
       [fn |-> "makeReferenceStars", names |-> names,
        kw |-> {"filterNameArray", "bandSelected=False"}] >>

\* the calls the stage makes on fgcmMakeStars, in the order of the code,
\* each on rad2deg(obsCat['ra']), rad2deg(obsCat['dec']) and obsFilterNames;
\* kw: the arguments passed by keyword
MatcherCalls(names) ==
    << [fn |-> "makeReferenceStars", names |-> names,
        kw |-> {"filterNameArray", "bandSelected=False"}],
       [fn |-> "makeMatchedStars", names |-> names, kw |-> {}] >>

(* ------------------- FgcmBuildStarsRunner.__call__ --------------------- *)

\* __call__ before task.run has returned or raised
NoCall ==
    [doRaise |-> FALSE, doReturnResults |-> FALSE, err |-> "none",
     raised |-> "none", metadata |-> FALSE, ret |-> "pending", exitStatus |-> -1]

(* What __call__ does once task.run has ended with exception err ("none"    *)
(* when it returned): the exception that leaves __call__ (raised), whether *)
(* task.writeMetadata was called, and what is returned: "list" is the      *)
(* one-element list of a Struct with exitStatus, "results" the value of    *)
(* the local results, "None" the end of the function body.  The local      *)
(* results is bound only when task.run returned; naming it unbound raises  *)
(* UnboundLocalError.                                                      *)
RunnerCall(var, doRaise, doReturnResults, err) ==
    LET failed == err # "none"
        base == [doRaise |-> doRaise, doReturnResults |-> doReturnResults,
                 err |-> err, raised |-> "none", metadata |-> TRUE,
                 ret |-> "None", exitStatus |-> -1]
    IN IF failed /\ doRaise
       THEN [base EXCEPT !.raised = err, !.metadata = FALSE, !.ret = "raise"]
       ELSE IF doReturnResults /\ failed
            THEN [base EXCEPT !.raised = "UnboundLocalError", !.ret = "raise"]
       ELSE IF var = "fgcmcal"
            THEN [base EXCEPT !.ret = "list",
                              !.exitStatus = IF failed THEN 1 ELSE 0]
       ELSE IF doReturnResults THEN [base EXCEPT !.ret = "results"]
       ELSE base

(* ------------------------------- Init ---------------------------------- *)

\* the record of one run: per stage whether it was skipped, is executing,
\* completed or raised; the puts made, the datasets the run found in the
\* Data Store, the exception
NewRun(s) ==
    [st |-> [x \in Stages |-> "pending"], puts |-> [d \in Datasets |-> 0],
     had |-> [d \in Datasets |-> s[d].exists], err |-> "none"]

Init ==
    /\ variant \in Variants
    /\ repo \in Repos
    /\ camera \in Cameras
    /\ schema \in Schemas
    /\ camera = <<0, 1>> \/ schema = [fields |-> SrcFields, visitInfo |-> TRUE]
    /\ call = NoCall
    /\ store = EmptyStore
    /\ paired = TRUE
    /\ pc = "idle"
    /\ remake = FALSE
    /\ remakes = 0
    /\ applyJacobian \in BOOLEAN
    /\ visitCat = <<>>
    /\ disc = NoDisc
    /\ loop = NoLoop
    /\ match = NoMatch
    /\ run = NewRun(EmptyStore)

Decide(s, status) == [run EXCEPT !.st[s] = status]
Raise(s, e) == [run EXCEPT !.st[s] = "failed", !.err = e]
CountPut(r, name) == [r EXCEPT !.puts[name] = @ + 1]

(* ------------------------------ run() ---------------------------------- *)

\* __call__ makes the task and enters task.run(butler, dataRefs); remake
\* is an fgcmcal option
StartRun ==
    /\ pc = "idle"
    /\ call' = NoCall
    /\ \E rm \in (IF variant = "fgcmcal" /\ remakes < MaxRemakes
                   THEN BOOLEAN ELSE {FALSE}) :
          /\ remake' = rm
          /\ remakes' = IF rm THEN remakes + 1 ELSE remakes
    /\ pc' = "visit"
    /\ visitCat' = <<>>
    /\ disc' = NoDisc
    /\ loop' = NoLoop
    /\ match' = NoMatch
    /\ run' = NewRun(store)
    /\ UNCHANGED <<variant, repo, camera, schema, applyJacobian, store, paired>>

\* _fgcmMakeVisitCatalog returns: the catalog is put and handed on
MakeVisitCatalog ==
    /\ pc = "visit"
    /\ StageNeeded(remake, datasetExists(store, "fgcmVisitCatalog"))
    /\ \E inp \in DiscoveryInputs(variant) :
          LET d == Discover(variant, repo, inp.refs, inp.q, inp.chk)
              cat == VisitRows(variant, repo, d)
          IN /\ VisitLoopError(variant, repo, d, schema) = "none"
             /\ store' = put(store, cat, "fgcmVisitCatalog")
             /\ visitCat' = cat
             /\ disc' = DiscOf(inp)
    /\ run' = CountPut(Decide("visit", "done"), "fgcmVisitCatalog")
    /\ pc' = "obs"
    /\ UNCHANGED <<variant, repo, camera, schema, call, remakes, applyJacobian, paired, remake, loop, match>>

\* _fgcmMakeVisitCatalog raises: butler.get finds no exposure of a visit
\* (NoResults), an exposure lacks its VisitInfo (AttributeError), or the
\* Data Store fails (IOError); nothing was put
MakeVisitCatalogRaise ==
    /\ pc = "visit"
    /\ StageNeeded(remake, datasetExists(store, "fgcmVisitCatalog"))
    /\ \E e \in {"NoResults", "AttributeError", "IOError"} :
          /\ e # "IOError" =>
                \E inp \in DiscoveryInputs(variant) :
                    VisitLoopError(variant, repo,
                        Discover(variant, repo, inp.refs, inp.q, inp.chk),
                        schema) = e
          /\ run' = Raise("visit", e)
    /\ pc' = "failed"
    /\ UNCHANGED <<variant, repo, camera, schema, call, disc, remakes, applyJacobian, store, paired, remake, visitCat, loop, match>>

\* "Found fgcmVisitCatalog.": visitCat = butler.get('fgcmVisitCatalog')
LoadVisitCatalog ==
    /\ pc = "visit"
    /\ ~StageNeeded(remake, datasetExists(store, "fgcmVisitCatalog"))
    /\ visitCat' = store["fgcmVisitCatalog"].cat
    /\ run' = Decide("visit", "skipped")
    /\ pc' = "obs"
    /\ UNCHANGED <<variant, repo, camera, schema, call, disc, remakes, applyJacobian, store, paired, remake, loop, match>>

(* ------------------- _fgcmMakeAllStarObservations ---------------------- *)

\* the stage is entered: schema, mapper and camera are set up; the locals
\* of _fgcmMakeVisitCatalog are gone
BeginObservations ==
    /\ pc = "obs"
    /\ StageNeeded(remake, datasetExists(store, "fgcmStarObservations"))
    /\ loop' = [i |-> 1, j |-> 1, fullCatalog |-> <<>>, started |-> FALSE]
    /\ run' = Decide("obs", "active")
    /\ pc' = "obsLoop"
    /\ disc' = NoDisc
    /\ UNCHANGED <<variant, repo, camera, schema, call, remakes, applyJacobian, store, paired, remake, visitCat, match>>

\* "Found fgcmStarObservations"
SkipObservations ==
    /\ pc = "obs"
    /\ ~StageNeeded(remake, datasetExists(store, "fgcmStarObservations"))
    /\ run' = Decide("obs", "skipped")
    /\ pc' = "match"
    /\ disc' = NoDisc
    /\ UNCHANGED <<variant, repo, camera, schema, call, remakes, applyJacobian, store, paired, remake, visitCat, loop, match>>

\* one pass of the inner loop: the pair (visitCat[i], camera[j])
ScanPair ==
    /\ pc = "obsLoop"
    /\ ~ScanDone(loop, visitCat)
    /\ LET vrow == visitCat[loop.i]
           src == repo[vrow.visit].src[loop.j]
       IN /\ src.exists => ~LookupFails(variant, applyJacobian, schema, loop.started)
          /\ loop' = IF ~src.exists
                     THEN SkipPair(loop)
                     ELSE [NextPair(loop) EXCEPT
                             !.started = TRUE,
                             !.fullCatalog =
                                 Extend(@, TempCat(variant, src.dets, vrow, loop.i,
                                                   loop.j, applyJacobian))]
    /\ UNCHANGED <<variant, repo, camera, schema, call, disc, remakes, applyJacobian, store, paired, pc, remake, visitCat, match, run>>

\* butler.put(fullCatalog, 'fgcmStarObservations') after the loops
PutObservations ==
    /\ pc = "obsLoop"
    /\ ScanDone(loop, visitCat)
    /\ loop.started
    /\ store' = put(store, loop.fullCatalog, "fgcmStarObservations")
    /\ run' = CountPut([run EXCEPT !.st["obs"] = "done"], "fgcmStarObservations")
    /\ pc' = "match"
    /\ UNCHANGED <<variant, repo, camera, schema, call, disc, remakes, applyJacobian, paired, remake, visitCat, loop, match>>

\* the stage raises: fullCatalog was never bound because no pair had a src
\* catalog (UnboundLocalError where the put names it), the first src
\* catalog lacks a field that is looked up (KeyError), or the Data Store
\* fails at a pair or at the put (IOError); nothing was put
ObservationsRaise ==
    /\ pc = "obsLoop"
    /\ \E e \in {"UnboundLocalError", "KeyError", "IOError"} :
          /\ e = "UnboundLocalError" <=> ScanDone(loop, visitCat) /\ ~loop.started
          /\ e = "KeyError" =>
                /\ ~ScanDone(loop, visitCat)
                /\ repo[visitCat[loop.i].visit].src[loop.j].exists
                /\ LookupFails(variant, applyJacobian, schema, loop.started)
          /\ run' = Raise("obs", e)
    /\ pc' = "failed"
    /\ loop' = NoLoop
    /\ UNCHANGED <<variant, repo, camera, schema, call, disc, remakes, applyJacobian, store, paired, remake, visitCat, match>>

(* --------------------------- _fgcmMatchStars --------------------------- *)

\* obsCat is read and the filter name of every observation looked up
BeginMatch ==
    /\ pc = "match"
    /\ StageNeeded(remake, StarsPresent(store))
    /\ IndexInRange(visitCat, store["fgcmStarObservations"].cat)
    /\ match' = [NoMatch EXCEPT
                   !.names = ObsFilterNames(visitCat, store["fgcmStarObservations"].cat)]
    /\ run' = Decide("match", "active")
    /\ pc' = "matchRef"
    /\ UNCHANGED <<variant, repo, camera, schema, call, disc, remakes, applyJacobian, store, paired, remake, visitCat, loop>>

\* "Found fgcmStarIds and fgcmStarIndices"
SkipMatch ==
    /\ pc = "match"
    /\ ~StageNeeded(remake, StarsPresent(store))
    /\ run' = Decide("match", "skipped")
    /\ pc' = "done"
    /\ UNCHANGED <<variant, repo, camera, schema, call, disc, remakes, applyJacobian, store, paired, remake, visitCat, loop, match>>

\* fgcmMakeStars.makeReferenceStars(ra, dec, filterNameArray, bandSelected=False)
MakeReferenceStars ==
    /\ pc = "matchRef"
    /\ match' = [match EXCEPT !.calls = Append(@, MatcherCalls(match.names)[1])]
    /\ pc' = "matchStars"
    /\ UNCHANGED <<variant, repo, camera, schema, call, disc, remakes, applyJacobian, store, paired, remake, visitCat, loop, run>>

\* fgcmMakeStars.makeMatchedStars(ra, dec, obsFilterNames)
MakeMatchedStars ==
    /\ pc = "matchStars"
    /\ \E out \in MatcherOutputs(Len(store["fgcmStarObservations"].cat)) :
          match' = [match EXCEPT !.calls = Append(@, MatcherCalls(match.names)[2]),
                                 !.obj = out.obj, !.idx = out.idx]
    /\ pc' = "putIds"
    /\ UNCHANGED <<variant, repo, camera, schema, call, disc, remakes, applyJacobian, store, paired, remake, visitCat, loop, run>>

\* butler.put(fgcmStarIdCat, 'fgcmStarIds')
PutStarIds ==
    /\ pc = "putIds"
    /\ store' = put(store, StarIdCat(match.obj), "fgcmStarIds")
    /\ paired' = FALSE
    /\ run' = CountPut(run, "fgcmStarIds")
    /\ pc' = "putIdx"
    /\ UNCHANGED <<variant, repo, camera, schema, call, disc, remakes, applyJacobian, remake, visitCat, loop, match>>

\* butler.put(fgcmStarIndicesCat, 'fgcmStarIndices'); the stage returns
PutStarIndices ==
    /\ pc = "putIdx"
    /\ store' = put(store, StarIndicesCat(match.idx), "fgcmStarIndices")
    /\ paired' = TRUE
    /\ run' = CountPut([run EXCEPT !.st["match"] = "done"], "fgcmStarIndices")
    /\ pc' = "done"
    /\ UNCHANGED <<variant, repo, camera, schema, call, disc, remakes, applyJacobian, remake, visitCat, loop, match>>

\* the stage raises: the filter lookup indexes past visitFilterNames
\* (IndexError), the matcher rejects its input in either call, or the Data
\* Store fails at a get or a put (IOError)
MatchRaise ==
    /\ \/ /\ pc = "match"
          /\ StageNeeded(remake, StarsPresent(store))
          /\ \E e \in {"IndexError", "IOError"} :
                /\ e = "IndexError" =>
                      ~IndexInRange(visitCat, store["fgcmStarObservations"].cat)
                /\ run' = Raise("match", e)
       \/ /\ pc \in {"matchRef", "matchStars"}
          /\ run' = Raise("match", "MatcherError")
       \/ /\ pc \in {"putIds", "putIdx"}
          /\ run' = Raise("match", "IOError")
    /\ pc' = "failed"
    /\ match' = NoMatch
    /\ UNCHANGED <<variant, repo, camera, schema, call, disc, remakes, applyJacobian, store, paired, remake, visitCat, loop>>

(* ------------------- FgcmBuildStarsRunner.__call__ --------------------- *)

\* task.run has returned or raised: the rest of __call__, under the
\* runner's doRaise and doReturnResults, which are read here only; the
\* task and the locals of its run are gone afterwards
RunnerReturn ==
    /\ pc \in {"done", "failed"}
    /\ \E doRaise, doReturnResults \in BOOLEAN :
          call' = RunnerCall(variant, doRaise, doReturnResults, run.err)
    /\ pc' = "idle"
    /\ visitCat' = <<>>
    /\ disc' = NoDisc
    /\ loop' = NoLoop
    /\ match' = NoMatch
    /\ run' = NewRun(store)
    /\ UNCHANGED <<variant, repo, camera, schema, applyJacobian, store, paired,
                   remake, remakes>>

Next ==
    \/ StartRun
    \/ RunnerReturn
    \/ MakeVisitCatalog
    \/ MakeVisitCatalogRaise
    \/ LoadVisitCatalog
    \/ BeginObservations
    \/ SkipObservations
    \/ ScanPair
    \/ PutObservations
    \/ ObservationsRaise
    \/ BeginMatch
    \/ SkipMatch
    \/ MakeReferenceStars
    \/ MakeMatchedStars
    \/ PutStarIds
    \/ PutStarIndices
    \/ MatchRaise

Spec == Init /\ [][Next]_vars

(* ------------------------------ the claims ----------------------------- *)

VisitIds(cat) == [k \in 1..Len(cat) |-> cat[k].visit]
StrictlyAscending(a) == \A x, y \in 1..Len(a) : x < y => a[x] < a[y]
PutsNothing == \A d \in Datasets : run.puts[d] = 0
HadAll == \A d \in Datasets : run.had[d]
HadOutputs(s) == \A d \in Outputs(s) : run.had[d]
Executed(s) == run.st[s] \in {"active", "done", "failed"}
AtRest == pc \in {"idle", "done", "failed"}
StageOrder(s) == CASE s = "visit" -> 1 [] s = "obs" -> 2 [] s = "match" -> 3

\* C1: in the fgcmcal variant the persisted Visit Catalog has strictly
\* ascending visit ids: sorted, and no visit id in two rows.
C1_VisitCatalogStrictlyAscending ==
    (variant = "fgcmcal" /\ datasetExists(store, "fgcmVisitCatalog")) =>
        StrictlyAscending(VisitIds(store["fgcmVisitCatalog"].cat))

\* C2: a run that finds all four artifacts in the Data Store and has the
\* rebuild flag unset puts nothing in any step, and no step changes the
\* Data Store.
C2_SecondRunPutsNothing ==
    [][(HadAll' /\ ~remake') => (store' = store /\ PutsNothing')]_vars

C2_Witness ==
    pc = "done" /\ HadAll /\ ~remake /\ \A s \in Stages : run.st[s] = "skipped"

\* C3: a stage that run() reaches executes exactly when the rebuild flag is
\* set or one of its artifacts was missing; a completed run has decided
\* every stage; a stage that does not execute puts nothing, and the visit
\* stage then hands on the catalog the Data Store holds.
C3_StageExecutesIffNeeded ==
    /\ \A s \in Stages :
          /\ Executed(s) => (remake \/ ~HadOutputs(s))
          /\ run.st[s] = "skipped" =>
                /\ ~remake /\ HadOutputs(s)
                /\ \A d \in Outputs(s) : run.puts[d] = 0
    /\ pc = "done" => \A s \in Stages : run.st[s] \in {"skipped", "done"}
    /\ run.st["visit"] = "skipped" =>
          /\ datasetExists(store, "fgcmVisitCatalog")
          /\ visitCat = store["fgcmVisitCatalog"].cat

C3_Witness ==
    /\ pc = "done" /\ ~remake
    /\ run.st = [s \in Stages |-> IF s = "visit" THEN "skipped" ELSE "done"]
    /\ Len(visitCat) = 2

\* C4: when a stage raises, no later stage executes in that run and the
\* stage that raised has put none of its own artifacts.
C4_FailedStagePutsNothing ==
    pc = "failed" =>
        \A s \in Stages :
            run.st[s] = "failed" =>
                /\ \A d \in Outputs(s) : run.puts[d] = 0
                /\ \A t \in Stages :
                      StageOrder(t) > StageOrder(s) => run.st[t] = "pending"

\* C5: an executed observation stage puts fgcmStarObservations once, after
\* the last (visit, detector) pair and with the catalog accumulated over
\* all of them; while it scans, and when it raises, it has put nothing.
C5_ObservationsPutOnceAtEnd ==
    /\ run.puts["fgcmStarObservations"] <= 1
    /\ run.puts["fgcmStarObservations"] = 1 <=> run.st["obs"] = "done"
    /\ run.st["obs"] = "done" =>
          /\ loop.i = Len(visitCat) + 1 /\ loop.j = 1
          /\ store["fgcmStarObservations"] = [exists |-> TRUE, cat |-> loop.fullCatalog]
    /\ (pc = "obsLoop" \/ run.st["obs"] = "failed") =>
          run.puts["fgcmStarObservations"] = 0

C5_Witness ==
    /\ run.st["obs"] = "done" /\ Len(visitCat) = 2
    /\ Len(loop.fullCatalog) >= 3

\* C6: whenever the pipeline is at rest (before, between or after runs,
\* a run that raised included), a persisted fgcmStarIds comes with the
\* fgcmStarIndices written by the same execution of the match stage.
C6_StarCatalogsWrittenTogether ==
    (AtRest /\ datasetExists(store, "fgcmStarIds")) =>
        (paired /\ datasetExists(store, "fgcmStarIndices"))

\* the CSR index (start, count) over an array of length n
Sum(f, n) ==
    LET S[k \in 0..n] == IF k = 0 THEN 0 ELSE S[k - 1] + f[k]
    IN S[n]
WellFormedCSR(starts, counts, n) ==
    /\ Sum(counts, Len(counts)) = n
    /\ \A x \in 1..Len(starts) :
          /\ counts[x] >= 0
          /\ 0 <= starts[x] /\ starts[x] + counts[x] <= n
    /\ \A x, y \in 1..Len(starts) :
          x < y => \/ starts[x] + counts[x] <= starts[y]
                   \/ starts[y] + counts[y] <= starts[x]
                   \/ counts[x] = 0 \/ counts[y] = 0

MatcherWellFormed ==
    WellFormedCSR([k \in 1..Len(match.obj) |-> match.obj[k].OBSARRINDEX],
                  [k \in 1..Len(match.obj) |-> match.obj[k].NOBS],
                  Len(match.idx))
PersistedWellFormed ==
    LET ids == store["fgcmStarIds"].cat
    IN WellFormedCSR([k \in 1..Len(ids) |-> ids[k].obsarrindex],
                     [k \in 1..Len(ids) |-> ids[k].nobs],
                     Len(store["fgcmStarIndices"].cat))

\* C7: when the match stage has completed on a matcher output that is a
\* well-formed CSR index, the persisted fgcmStarIds and fgcmStarIndices
\* are one: the nobs sum to the length of the index array, the ranges
\* [obsarrindex, obsarrindex + nobs) are pairwise disjoint and inside it.
C7_PersistedIndexWellFormed ==
    (run.st["match"] = "done" /\ MatcherWellFormed) => PersistedWellFormed

C7_Witness ==
    /\ run.st["match"] = "done" /\ MatcherWellFormed
    /\ Len(store["fgcmStarIds"].cat) = 2
    /\ Len(store["fgcmStarIndices"].cat) = 5
    /\ store["fgcmStarIds"].cat[1].nobs = 3 /\ store["fgcmStarIds"].cat[2].nobs = 2

\* C8: the rows accumulated by the observation stage are in
\* visit-then-detector order, each row carries the visit id and the
\* detector id of the pair it was read from, and the catalog put is the
\* one accumulated; visits 100 and 101 with 3 and 2 passing detections on
\* one detector each give rows 0-2 of visit 100 and rows 3-4 of visit 101.
C8_RowsInScanOrder ==
    (pc = "obsLoop" \/ run.st["obs"] = "done") =>
        LET rows == loop.fullCatalog
        IN /\ \A a, b \in 1..Len(rows) :
                 a < b => \/ rows[a].vpos < rows[b].vpos
                          \/ /\ rows[a].vpos = rows[b].vpos
                             /\ rows[a].dpos <= rows[b].dpos
           /\ \A a \in 1..Len(rows) :
                 /\ rows[a].vpos \in 1..Len(visitCat)
                 /\ rows[a].dpos \in 1..nCcd
                 /\ rows[a].visit = visitCat[rows[a].vpos].visit
                 /\ rows[a].ccd = camera[rows[a].dpos]
                 /\ rows[a].det \in Range(repo[rows[a].visit].src[rows[a].dpos].dets)
           /\ run.st["obs"] = "done" => store["fgcmStarObservations"].cat = rows
           /\ ( /\ run.st["obs"] = "done"
                /\ VisitIds(visitCat) = <<100, 101>>
                /\ repo[100] = Profile(NoSrc, Src(<<Good, Good, Good>>), "raw")
                /\ repo[101] = Profile(NoSrc, Src(<<Good, Good>>), "raw") )
              => VisitIds(rows) = <<100, 100, 100, 101, 101>>

C8_Witness ==
    /\ run.st["obs"] = "done"
    /\ VisitIds(visitCat) = <<100, 101>>
    /\ VisitIds(store["fgcmStarObservations"].cat) = <<100, 100, 100, 101, 101>>

\* C9: in the match stage the filter label handed to the Star Matcher for
\* an observation is the filter label of the Visit Catalog row that has
\* the observation's visit id.
C9_FilterLabelOfOwnVisit ==
    \A c \in 1..Len(match.calls) :
        LET obsCat == store["fgcmStarObservations"].cat
        IN \A k \in 1..Len(obsCat), v \in 1..Len(visitCat) :
              visitCat[v].visit = obsCat[k].visit =>
                  match.calls[c].names[k] = visitCat[v].filtername

\* C10: in the fgcmcal variant no detection with flux <= 0 or with a
\* non-finite flux error is a row of the persisted Observation Catalog.
C10_NoBadFluxRow ==
    (variant = "fgcmcal" /\ datasetExists(store, "fgcmStarObservations")) =>
        \A k \in 1..Len(store["fgcmStarObservations"].cat) :
            LET d == store["fgcmStarObservations"].cat[k].det
            IN d.flux > 0 /\ d.errKind = "fin"

(* ------------------------- the visit stage ----------------------------- *)

HasSrc(v) == \E c \in CcdIds : SrcExists(repo, v, c)
VisitStageReturned == pc = "obs" /\ run.st["visit"] = "done"

\* C13: in the fgcmcal variant the visit stage never ends a run for a
\* visit that has neither a raw nor a calexp exposure (only a failure of
\* the Data Store itself is fatal), and every row of the catalog it puts
\* took its metadata from raw when the repository has raw, from calexp
\* otherwise.
C13_MissingExposureOmitsRow ==
    variant = "fgcmcal" =>
        /\ run.st["visit"] = "failed" => run.err = "IOError"
        /\ VisitStageReturned =>
              \A k \in 1..Len(visitCat) :
                  visitCat[k].expo =
                      IF repo[visitCat[k].visit].expo = "raw" THEN "raw" ELSE "calexp"

\* C14: when the visit stage has built the catalog from a non-empty id
\* list, every visit named by a data reference of the list, at whatever
\* detector, is a visit of the Visit Catalog.
C14_EveryNamedVisitListed ==
    (VisitStageReturned /\ disc.mode = "ids") =>
        disc.named \subseteq Range(VisitIds(visitCat))

\* C15: when the visit stage has built the catalog from an empty id list
\* with the exhaustive scan off, and the registry query enumerated every
\* visit, every visit with a src catalog on some detector is a visit of
\* the Visit Catalog.
C15_FastPathFindsEveryVisit ==
    (VisitStageReturned /\ disc.mode = "fast" /\ disc.named = Visits) =>
        \A v \in Visits : HasSrc(v) => v \in Range(VisitIds(visitCat))

\* C17: when the fgcmcal visit stage has built the catalog in exhaustive
\* mode, the detector each row's exposure was fetched at is the detector
\* at which the scan found the visit's src catalog: the first detector of
\* xrange(nCcd) that has one.
C17_MetadataDetectorIsDiscoveryDetector ==
    (variant = "fgcmcal" /\ VisitStageReturned /\ disc.mode = "all") =>
        \A k \in 1..Len(visitCat) :
            /\ HasSrc(visitCat[k].visit)
            /\ visitCat[k].ccd =
                  MinOf({c \in 0..(nCcd - 1) : SrcExists(repo, visitCat[k].visit, c)})

(* ---------------------- the observation stage -------------------------- *)

\* the (visit, detector) pairs in scan order, as positions in visitCat and
\* camera, and the src dataset of a pair
PairAt(n) == [i |-> ((n - 1) \div nCcd) + 1, j |-> ((n - 1) % nCcd) + 1]
PairsPassed(l) == (l.i - 1) * nCcd + (l.j - 1)
SrcOfPair(p) == repo[visitCat[p.i].visit].src[p.j]
CurrentMissing ==
    /\ pc = "obsLoop" /\ ~ScanDone(loop, visitCat)
    /\ ~SrcOfPair([i |-> loop.i, j |-> loop.j]).exists

\* the rows of a list of pairs, each pair read on its own
RECURSIVE RowsOfPairs(_)
RowsOfPairs(ps) ==
    IF Len(ps) = 0 THEN <<>>
    ELSE LET p == ps[Len(ps)]
         IN RowsOfPairs(SubSeq(ps, 1, Len(ps) - 1))
              \o TempCat(variant, SrcOfPair(p).dets, visitCat[p.i], p.i, p.j,
                         applyJacobian)

\* the first n pairs with the pairs that have no src dataset left out
PresentPairs(n) ==
    SelectSeq([k \in 1..n |-> PairAt(k)], LAMBDA p : SrcOfPair(p).exists)

\* C11: a step of the scan at a pair whose src dataset is absent goes on
\* to the next pair with the accumulated catalog as it was (the stage can
\* end there only on a failure of the Data Store itself); and at every
\* point of the scan and at its end the accumulated catalog is the rows
\* of the pairs passed so far with the absent pairs left out of the
\* enumeration.
C11_MissingPairSkipped ==
    [][ /\ CurrentMissing =>
              \/ /\ pc' = "obsLoop"
                 /\ loop' = [NextPair(loop) EXCEPT !.fullCatalog = loop.fullCatalog]
              \/ pc' = "failed" /\ run'.err = "IOError"
        /\ (pc' = "obsLoop" \/ run'.st["obs"] = "done") =>
              loop'.fullCatalog = RowsOfPairs(PresentPairs(PairsPassed(loop')))
      ]_vars

C11_Witness ==
    /\ run.st["obs"] = "done"
    /\ Len(visitCat) = 2
    /\ ~SrcOfPair(PairAt(1)).exists /\ SrcOfPair(PairAt(2)).exists
    /\ ~SrcOfPair(PairAt(3)).exists /\ SrcOfPair(PairAt(4)).exists
    /\ Len(loop.fullCatalog) = 5

\* C12: the observation stage ends a run only on a failure of the Data
\* Store itself: for every Visit Catalog, also an empty one and one none
\* of whose pairs has a src dataset, the scan ends with the put of the
\* Observation Catalog.
C12_CompletesOnEmptyInput ==
    /\ run.st["obs"] = "failed" => run.err = "IOError"
    /\ (pc = "obsLoop" /\ ScanDone(loop, visitCat)) => loop.started

(* --------------------------- the match stage --------------------------- *)

MatchExecuting == pc \in {"matchRef", "matchStars", "putIds", "putIdx"}
PutsOfMatch(r) == r.puts["fgcmStarIds"] + r.puts["fgcmStarIndices"]

\* C16: while the match stage executes and when it has completed, the
\* calls made on the Star Matcher are a prefix of: makeReferenceStars with
\* bandSelected False, then makeMatchedStars, both on the filter labels
\* of all observations; a completed stage has made both, and a step that
\* puts fgcmStarIds or fgcmStarIndices is taken after both.
C16_TwoMatcherCallsBeforePuts ==
    [][ LET names == ObsFilterNames(visitCat', store'["fgcmStarObservations"].cat)
            both == << [fn |-> "makeReferenceStars", names |-> names,
                        kw |-> {"filterNameArray", "bandSelected=False"}],
                       [fn |-> "makeMatchedStars", names |-> names, kw |-> {}] >>
        IN /\ (MatchExecuting' \/ run'.st["match"] = "done") =>
                 /\ Len(match'.calls) <= 2
                 /\ match'.calls = SubSeq(both, 1, Len(match'.calls))
                 /\ Len(names) = Len(store'["fgcmStarObservations"].cat)
           /\ run'.st["match"] = "done" => match'.calls = both
           /\ PutsOfMatch(run') > PutsOfMatch(run) => match.calls = both
      ]_vars

C16_Witness ==
    /\ run.st["match"] = "done"
    /\ Len(match.calls) = 2
    /\ match.calls[1].fn = "makeReferenceStars"
    /\ match.calls[2].fn = "makeMatchedStars"
    /\ match.calls[2].names = <<"g", "g", "g", "r", "r">>

(* ------------------------- sequences of runs --------------------------- *)

\* C18: between runs (before the first, after a run that completed or
\* raised), whenever fgcmVisitCatalog and fgcmStarObservations are both
\* persisted, every visit id of an Observation Catalog row is the visit id
\* of a row of the persisted Visit Catalog.
C18_ObservationVisitsInVisitCatalog ==
    (AtRest /\ datasetExists(store, "fgcmVisitCatalog")
       /\ datasetExists(store, "fgcmStarObservations")) =>
        Range(VisitIds(store["fgcmStarObservations"].cat))
            \subseteq Range(VisitIds(store["fgcmVisitCatalog"].cat))

\* C19: when a run has ended successfully, every obsindex entry of the
\* persisted fgcmStarIndices is a row index of the persisted
\* fgcmStarObservations.
C19_IndexWithinObservations ==
    pc = "done" =>
        \A k \in 1..Len(store["fgcmStarIndices"].cat) :
            /\ 0 <= store["fgcmStarIndices"].cat[k].obsindex
            /\ store["fgcmStarIndices"].cat[k].obsindex
                  < Len(store["fgcmStarObservations"].cat)

\* C20: a run without the rebuild flag that found exactly one of
\* fgcmStarIds and fgcmStarIndices and ended successfully has executed the
\* match stage and put both, once each, and the two persisted catalogs
\* are the ones made from the one matcher output of that execution.
C20_LonePartnerRebuilt ==
    (pc = "done" /\ ~remake
       /\ run.had["fgcmStarIds"] # run.had["fgcmStarIndices"]) =>
        /\ run.st["match"] = "done"
        /\ run.puts["fgcmStarIds"] = 1 /\ run.puts["fgcmStarIndices"] = 1
        /\ paired
        /\ store["fgcmStarIds"].cat = StarIdCat(match.obj)
        /\ store["fgcmStarIndices"].cat = StarIndicesCat(match.idx)

C20_Witness ==
    /\ pc = "done" /\ ~remake
    /\ run.had["fgcmStarIds"] /\ ~run.had["fgcmStarIndices"]
    /\ run.st = [s \in Stages |-> IF s = "match" THEN "done" ELSE "skipped"]
    /\ Len(store["fgcmStarIndices"].cat) = 5

(* ------------------------------ the runner ----------------------------- *)

\* C21: when task.run has raised and doRaise is false, __call__ lets no
\* exception out, whichever doReturnResults is: it has called
\* writeMetadata, and in the fgcmcal variant it returns the one-element
\* list whose Struct has exitStatus 1; the exitStatus is 0 when run
\* returned.
C21_CallDoesNotRaise ==
    /\ (call.err # "none" /\ ~call.doRaise) =>
          /\ call.raised = "none"
          /\ call.metadata
          /\ variant = "fgcmcal" => (call.ret = "list" /\ call.exitStatus = 1)
    /\ (variant = "fgcmcal" /\ call.ret # "pending" /\ call.err = "none") =>
          (call.ret = "list" /\ call.exitStatus = 0)

(* ------------------- the fgcm variant's own selection ------------------ *)

Ascending(a) == \A x, y \in 1..Len(a) : x < y => a[x] <= a[y]

\* C22: in the fgcm variant the persisted Visit Catalog, the one the match
\* stage searches by bisection, has its rows in ascending order of visit
\* id, in whatever order the query or the id list names the visits.
C22_FgcmVisitCatalogAscending ==
    (variant = "fgcm" /\ datasetExists(store, "fgcmVisitCatalog")) =>
        Ascending(VisitIds(store["fgcmVisitCatalog"].cat))

BadFlux(d) == d.flux <= 0 \/ d.errKind # "fin"
ScannedDets ==
    UNION {Range(repo[visitCat[i].visit].src[j].dets) :
              i \in 1..Len(visitCat), j \in 1..nCcd}

C24_NoNonFiniteRow ==
    datasetExists(store, "fgcmStarObservations") =>
        \A k \in 1..Len(store["fgcmStarObservations"].cat) :
            /\ store["fgcmStarObservations"].cat[k].mag = "fin"
            /\ isfinite(store["fgcmStarObservations"].cat[k].magerr)

(* ------------------------- fields and detectors ----------------------- *)

\* C25: with the Jacobian correction off, in either variant, the
\* observation stage does not need the Jacobian field: on src catalogs
\* that have every other field it never raises for a missing field, and
\* the magnitude of a row does not change with the Jacobian value of its
\* detection.
C25_JacobianNotReadWhenOff ==
    ~applyJacobian =>
        /\ "centroid" \in schema.fields =>
              ~(run.st["obs"] = "failed" /\ run.err = "KeyError")
        /\ \A k \in 1..Len(loop.fullCatalog) :
              \A jac \in {-1, 0, 1} :
                  loop.fullCatalog[k].mag =
                      MagOf([loop.fullCatalog[k].det EXCEPT !.jac = jac], applyJacobian)

\* C26: when the fgcmcal visit stage has built the catalog in exhaustive
\* mode, a visit the query named is in the Visit Catalog exactly when some
\* detector of the camera, by the camera's own detector ids, has a src
\* dataset of that visit.
C26_ExhaustiveScanOverCameraIds ==
    (variant = "fgcmcal" /\ VisitStageReturned /\ disc.mode = "all") =>
        \A v \in disc.named : v \in Range(VisitIds(visitCat)) <=> HasSrc(v)

\* C27: fgcmStarObservations changes only in the step in which an
\* executing observation stage puts it; no step of the match stage, and
\* no step of a run that found it and has the rebuild flag unset, changes
\* its contents or its row order.
C27_ObservationsNeverRewritten ==
    [][ /\ store'["fgcmStarObservations"] # store["fgcmStarObservations"] =>
              /\ pc = "obsLoop" /\ run.st["obs"] = "active"
              /\ run'.st["obs"] = "done"
              /\ run'.puts["fgcmStarObservations"] = run.puts["fgcmStarObservations"] + 1
        /\ (pc = "match" \/ MatchExecuting) =>
              store'["fgcmStarObservations"] = store["fgcmStarObservations"]
        /\ (run'.had["fgcmStarObservations"] /\ ~remake') =>
              store'["fgcmStarObservations"] = store["fgcmStarObservations"]
      ]_vars

C27_Witness ==
    /\ pc = "done" /\ ~remake
    /\ run.had["fgcmStarObservations"]
    /\ run.st["obs"] = "skipped" /\ run.st["match"] = "done"
    /\ VisitIds(store["fgcmStarObservations"].cat) = <<100, 100, 100, 101, 101>>

\* the fields the claim names: the centroid, and the Jacobian when enabled
ExpectedFields == {"centroid"} \cup (IF applyJacobian THEN {"jacobian"} ELSE {})

C29_MatcherOutputTranscribed ==
    run.st["match"] = "done" =>
        LET ids == store["fgcmStarIds"].cat
            idx == store["fgcmStarIndices"].cat
        IN /\ Len(ids) = Len(match.obj)
           /\ \A k \in 1..Len(ids) :
                 /\ ids[k].fgcm_id = match.obj[k].FGCM_ID
                 /\ ids[k].ra = match.obj[k].RA
                 /\ ids[k].dec = match.obj[k].DEC
                 /\ ids[k].obsarrindex = match.obj[k].OBSARRINDEX
                 /\ ids[k].nobs = match.obj[k].NOBS
           /\ Len(idx) = Len(match.idx)
           /\ \A k \in 1..Len(idx) : idx[k].obsindex = match.idx[k]

C29_Witness ==
    /\ run.st["match"] = "done"
    /\ match.idx = <<3, 4, 0, 1, 2>>
    /\ Len(match.obj) = 2
    /\ store["fgcmStarIndices"].cat[1].obsindex = 3
    /\ store["fgcmStarIds"].cat[2].fgcm_id = 2

====
